---- MODULE Spec2Model ----
(***************************************************************************)
(* A model of image8bit.c, the 8-bit grayscale image library: the image    *)
(* store (malloc/free of struct image), the point, geometric, compositing  *)
(* and blur operators, and the PGM (P5) codec over a byte-level file.      *)
(*                                                                         *)
(* An image is a record [width, height, maxval, pixel] whose pixel field   *)
(* is the raster, a sequence of width*height samples: the sample the C     *)
(* code keeps at pixel[G(img,x,y)] is pixel[G(img,x,y) + 1] here           *)
(* (sequences start at 1).  The heap maps the addresses of the live        *)
(* struct image objects to their contents; held is the set of image        *)
(* pointers the caller owns.  Every library call is one action; it leaves  *)
(* in `last` what the caller can observe of the call.                      *)
(***************************************************************************)
EXTENDS Integers, Sequences, FiniteSets, TLC

VARIABLES heap, held, file, errCause, last, calls

vars == <<heap, held, file, errCause, last, calls>>

----------------------------------------------------------------------------
(* Bounds of the model *)

MaxW == 2
MaxH == 2
MaxD == 1
MaxCalls == 2
MaxHandles == 3
PairW == 2
PairH == 2
PairCalls == 1
PasteCropW == 2
PasteCropH == 1
PasteCropCalls == 2
CodecW == 2
CodecH == 1
CodecCalls == 2

----------------------------------------------------------------------------
(* Program constants *)

PixMax == 255

NULL == 0

IntMax == 2147483647

Handles == 1..MaxHandles

----------------------------------------------------------------------------
(* struct image and the pixel accessors *)

Image(w, h, m, px) == [width |-> w, height |-> h, maxval |-> m, pixel |-> px]

ImageValidPos(img, x, y) ==
    (0 <= x /\ x < img.width) /\ (0 <= y /\ y < img.height)

ImageValidRect(img, x, y, w, h) ==
    (0 <= x /\ x + w <= img.width) /\ (0 <= y /\ y + h <= img.height)

G(img, x, y) == y * img.width + x

ImageGetPixel(img, x, y) == img.pixel[G(img, x, y) + 1]

ImageSetPixel(img, x, y, level) == [img EXCEPT !.pixel[G(img, x, y) + 1] = level]

----------------------------------------------------------------------------
(* Allocation.  malloc returns NULL when the environment refuses (ok is    *)
(* FALSE) or when no address is left, and else a fresh address.            *)

Malloc(hp, ok) ==
    LET free == Handles \ DOMAIN hp
    IN  IF ok /\ free # {}
        THEN CHOOSE p \in free : \A q \in free : p <= q
        ELSE NULL

Free(hp, p) == [q \in DOMAIN hp \ {p} |-> hp[q]]

(* ImageCreate: the struct is allocated, then the pixel array; when the    *)
(* pixel array is refused the struct is freed again.  ok1 and ok2 are the  *)
(* environment's answers to the two malloc calls.  The result carries the  *)
(* new heap, the returned pointer and errCause.                            *)
ImageCreate(hp, ec, width, height, maxval, ok1, ok2) ==
    LET image == Malloc(hp, ok1)
    IN  IF image = NULL
        THEN [heap |-> hp, ret |-> NULL,
              errCause |-> "Memory allocation for Image structure failed"]
        ELSE IF ~ok2
        THEN [heap |-> Free((image :> Image(width, height, maxval, <<>>)) @@ hp, image),
              ret |-> NULL,
              errCause |-> "Memory allocation for pixel array failed"]
        ELSE [heap |-> (image :> Image(width, height, maxval,
                                       [i \in 1..(width * height) |-> 0])) @@ hp,
              ret |-> image,
              errCause |-> ec]

CreateAsserts(width, height, maxval) ==
    width >= 0 /\ height >= 0 /\ 0 < maxval /\ maxval <= PixMax

(* ImageDestroy(&p): nothing when p is NULL, else both blocks are freed.   *)
ImageDestroy(hp, p) == IF p = NULL THEN hp ELSE Free(hp, p)

----------------------------------------------------------------------------
(* Point operators.  Each reads the sample at (x, y) and writes the same   *)
(* position, so the double loop is a map over the raster.                  *)

ImageNegative(img) ==
    [img EXCEPT !.pixel = [i \in 1..(img.width * img.height) |-> PixMax - img.pixel[i]]]

ImageThreshold(img, thr) ==
    [img EXCEPT !.pixel = [i \in 1..(img.width * img.height) |->
                              IF img.pixel[i] < thr THEN 0 ELSE img.maxval]]

(* A factor is the double num/den with den a power of two, so that the     *)
(* product currentPixel * factor is exact.  (int) truncates a product that *)
(* fits an int; the conversion of a larger one is undefined, and ub is the *)
(* int the build produces for it.                                          *)
IntConv(currentPixel, factor, ub) ==
    IF currentPixel = 0 \/ factor.num <= IntMax \div currentPixel
    THEN (currentPixel * factor.num) \div factor.den
    ELSE ub

(* uint8 newPixel = (int)(currentPixel * factor): the int is reduced       *)
(* modulo 256 by the assignment, and only then compared with maxval.       *)
BrightenPixel(currentPixel, factor, maxval, ub) ==
    LET newPixel == IntConv(currentPixel, factor, ub) % 256
    IN  IF newPixel > maxval THEN maxval ELSE newPixel

ImageBrighten(img, factor, ub) ==
    [img EXCEPT !.pixel = [i \in 1..(img.width * img.height) |->
                              BrightenPixel(img.pixel[i], factor, img.maxval, ub)]]

----------------------------------------------------------------------------
(* Geometric operators.  The loops run y outermost and x innermost; k is   *)
(* the number of (y, x) iterations already done.                           *)

RECURSIVE RotateLoop(_, _, _)
RotateLoop(img, rotatedImage, k) ==
    IF k >= img.width * img.height THEN rotatedImage
    ELSE LET y == k \div img.width
             x == k % img.width
         IN  RotateLoop(img,
                        ImageSetPixel(rotatedImage, img.height - y - 1, x,
                                      ImageGetPixel(img, x, y)),
                        k + 1)

RECURSIVE MirrorLoop(_, _, _)
MirrorLoop(img, mirroredImage, k) ==
    IF k >= img.width * img.height THEN mirroredImage
    ELSE LET y == k \div img.width
             x == k % img.width
         IN  MirrorLoop(img,
                        ImageSetPixel(mirroredImage, img.width - x - 1, y,
                                      ImageGetPixel(img, x, y)),
                        k + 1)

RECURSIVE CropLoop(_, _, _, _, _, _, _)
CropLoop(img, x, y, w, h, croppedImage, k) ==
    IF k >= w * h THEN croppedImage
    ELSE LET j == k \div w
             i == k % w
         IN  CropLoop(img, x, y, w, h,
                      ImageSetPixel(croppedImage, i, j, ImageGetPixel(img, x + i, y + j)),
                      k + 1)

(* The operators that return a new image: the result of ImageCreate with   *)
(* the new image filled in by the loop.                                    *)
Filled(c, img) == [c EXCEPT !.heap = IF c.ret = NULL THEN @ ELSE [@ EXCEPT ![c.ret] = img]]

ImageRotate(hp, ec, p, ok1, ok2) ==
    LET img == hp[p]
        c == ImageCreate(hp, ec, img.height, img.width, img.maxval, ok1, ok2)
    IN  IF c.ret = NULL THEN c ELSE Filled(c, RotateLoop(img, c.heap[c.ret], 0))

ImageMirror(hp, ec, p, ok1, ok2) ==
    LET img == hp[p]
        c == ImageCreate(hp, ec, img.width, img.height, img.maxval, ok1, ok2)
    IN  IF c.ret = NULL THEN c ELSE Filled(c, MirrorLoop(img, c.heap[c.ret], 0))

ImageCrop(hp, ec, p, x, y, w, h, ok1, ok2) ==
    LET img == hp[p]
        c == ImageCreate(hp, ec, w, h, img.maxval, ok1, ok2)
    IN  IF c.ret = NULL THEN c ELSE Filled(c, CropLoop(img, x, y, w, h, c.heap[c.ret], 0))

----------------------------------------------------------------------------
(* Blur.  The image is copied to originalImage; for every (x, y) the sum   *)
(* and the count of the in-bounds neighbours are accumulated; nothing is   *)
(* stored and originalImage is not destroyed.                              *)

RECURSIVE CopyLoop(_, _, _)
CopyLoop(img, originalImage, k) ==
    IF k >= img.width * img.height THEN originalImage
    ELSE LET y == k \div img.width
             x == k % img.width
         IN  CopyLoop(img,
                      ImageSetPixel(originalImage, x, y, ImageGetPixel(img, x, y)),
                      k + 1)

(* The (j, i) iterations of the inner loops at (x, y) that pass the        *)
(* ImageValidPos test.                                                     *)
Neighbours(originalImage, x, y, dx, dy) ==
    {n \in ((-dx)..dx) \X ((-dy)..dy) : ImageValidPos(originalImage, x + n[1], y + n[2])}

RECURSIVE SumOver(_, _, _, _)
SumOver(originalImage, x, y, ns) ==
    IF ns = {} THEN 0
    ELSE LET n == CHOOSE m \in ns : TRUE
         IN  ImageGetPixel(originalImage, x + n[1], y + n[2])
             + SumOver(originalImage, x, y, ns \ {n})

BlurSum(originalImage, x, y, dx, dy) ==
    SumOver(originalImage, x, y, Neighbours(originalImage, x, y, dx, dy))

BlurCount(originalImage, x, y, dx, dy) ==
    Cardinality(Neighbours(originalImage, x, y, dx, dy))

(* The samples ImageBlur reads and writes: the copy, then every in-bounds  *)
(* neighbour of every position.                                            *)
RECURSIVE BlurReads(_, _, _, _)
BlurReads(img, dx, dy, k) ==
    IF k >= img.width * img.height THEN 2 * img.width * img.height
    ELSE BlurCount(img, k % img.width, k \div img.width, dx, dy)
         + BlurReads(img, dx, dy, k + 1)

ImageBlur(hp, ec, p, dx, dy, ok1, ok2) ==
    LET img == hp[p]
        c == ImageCreate(hp, ec, img.width, img.height, img.maxval, ok1, ok2)
    IN  IF c.ret = NULL THEN c ELSE Filled(c, CopyLoop(img, c.heap[c.ret], 0))

----------------------------------------------------------------------------
(* Compositor.  The loops run j over img2's rows and i over its columns;   *)
(* k is the number of (j, i) iterations already done.                      *)

RECURSIVE PasteLoop(_, _, _, _, _)
PasteLoop(img1, x, y, img2, k) ==
    IF k >= img2.width * img2.height THEN img1
    ELSE LET j == k \div img2.width
             i == k % img2.width
         IN  PasteLoop(ImageSetPixel(img1, x + i, y + j, ImageGetPixel(img2, i, j)),
                       x, y, img2, k + 1)

(* ImagePaste with the anchor ignored: img2 is copied to (0, 0).           *)
ImagePasteAtOrigin(img1, x, y, img2) == PasteLoop(img1, 0, 0, img2, 0)

ImagePaste(img1, x, y, img2) == PasteLoop(img1, x, y, img2, 0)

(* alpha is the double num/den with 0 <= num <= den and den a power of     *)
(* two: the sum is exact and lies in 0..255, so (uint8) truncates it.      *)
BlendPixel(pixel1, pixel2, alpha) ==
    (alpha.num * pixel1 + (alpha.den - alpha.num) * pixel2) \div alpha.den

RECURSIVE BlendLoop(_, _, _, _, _, _)
BlendLoop(img1, x, y, img2, alpha, k) ==
    IF k >= img2.width * img2.height THEN img1
    ELSE LET j == k \div img2.width
             i == k % img2.width
         IN  BlendLoop(ImageSetPixel(img1, x + i, y + j,
                                     BlendPixel(ImageGetPixel(img1, x + i, y + j),
                                                ImageGetPixel(img2, i, j), alpha)),
                       x, y, img2, alpha, k + 1)

ImageBlend(img1, x, y, img2, alpha) == BlendLoop(img1, x, y, img2, alpha, 0)

(* The comparison loop of ImageMatchSubImage.  ImageGetPixel(img1, ...)    *)
(* asserts ImageValidPos and aborts the process outside img1; a differing  *)
(* pair returns 0.  pixmem counts the samples read.                        *)
RECURSIVE MatchLoop(_, _, _, _, _)
MatchLoop(img1, x, y, img2, k) ==
    IF k >= img2.width * img2.height
    THEN [ret |-> 1, aborted |-> FALSE, pixmem |-> 2 * k]
    ELSE LET j == k \div img2.width
             i == k % img2.width
         IN  IF ~ImageValidPos(img1, x + i, y + j)
             THEN [ret |-> 0, aborted |-> TRUE, pixmem |-> 2 * k]
             ELSE IF ImageGetPixel(img1, x + i, y + j) # ImageGetPixel(img2, i, j)
             THEN [ret |-> 0, aborted |-> FALSE, pixmem |-> 2 * k + 2]
             ELSE MatchLoop(img1, x, y, img2, k + 1)

ImageMatchSubImage(img1, x, y, img2) ==
    IF ~ImageValidPos(img1, x, y)
    THEN [ret |-> 0, aborted |-> TRUE, pixmem |-> 0]
    ELSE MatchLoop(img1, x, y, img2, 0)

(* The search loops of ImageLocateSubImage: y runs over                    *)
(* 0 .. height1 - height2 and x over 0 .. width1 - width2; n is the number *)
(* of anchors already tried, pm the samples read so far, and px, py the    *)
(* caller's variables, written only on a match.                            *)
RECURSIVE LocateLoop(_, _, _, _, _, _)
LocateLoop(img1, img2, px, py, n, pm) ==
    LET rows == img1.height - img2.height + 1
        cols == img1.width - img2.width + 1
    IN  IF rows <= 0 \/ cols <= 0 \/ n >= rows * cols
        THEN [ret |-> 0, aborted |-> FALSE, px |-> px, py |-> py, pixmem |-> pm]
        ELSE LET y == n \div cols
                 x == n % cols
                 m == ImageMatchSubImage(img1, x, y, img2)
             IN  IF m.aborted
                 THEN [ret |-> 0, aborted |-> TRUE, px |-> px, py |-> py,
                       pixmem |-> pm + m.pixmem]
                 ELSE IF m.ret = 1
                 THEN [ret |-> 1, aborted |-> FALSE, px |-> x, py |-> y,
                       pixmem |-> pm + m.pixmem]
                 ELSE LocateLoop(img1, img2, px, py, n + 1, pm + m.pixmem)

ImageLocateSubImage(img1, px, py, img2) == LocateLoop(img1, img2, px, py, 0, 0)

----------------------------------------------------------------------------
(* PGM codec.  A file is [exists, data] with data its bytes; a stream is   *)
(* the data and the position pos of the next byte to read (from 1).  The   *)
(* fscanf directives return [n, pos, val]: n is fscanf's return value      *)
(* (-1 is EOF), pos the new position and val the value stored.             *)

Ch == [P |-> 80, five |-> 53, nl |-> 10, sp |-> 32, hash |-> 35,
       zero |-> 48, nine |-> 57, minus |-> 45, plus |-> 43]

NoFile == [exists |-> FALSE, data |-> <<>>]

IsSpace(c) == c \in {9, 10, 11, 12, 13, 32}

IsDigit(c) == Ch.zero <= c /\ c <= Ch.nine

AtEof(data, pos) == pos > Len(data)

RECURSIVE SkipWs(_, _)
SkipWs(data, pos) ==
    IF ~AtEof(data, pos) /\ IsSpace(data[pos]) THEN SkipWs(data, pos + 1) ELSE pos

RECURSIVE ScanDigits(_, _, _)
ScanDigits(data, pos, acc) ==
    IF ~AtEof(data, pos) /\ IsDigit(data[pos])
    THEN ScanDigits(data, pos + 1, 10 * acc + (data[pos] - Ch.zero))
    ELSE [pos |-> pos, val |-> acc]

(* "%d": white space is skipped, then an optional sign and at least one    *)
(* digit are read.                                                         *)
ScanInt(data, pos) ==
    LET p0 == SkipWs(data, pos)
        signed == ~AtEof(data, p0) /\ data[p0] \in {Ch.minus, Ch.plus}
        p1 == IF signed THEN p0 + 1 ELSE p0
        ds == ScanDigits(data, p1, 0)
    IN  IF AtEof(data, p0) THEN [n |-> -1, pos |-> p0, val |-> 0]
        ELSE IF ds.pos = p1 THEN [n |-> 0, pos |-> p1, val |-> 0]
        ELSE [n |-> 1, pos |-> ds.pos,
              val |-> IF signed /\ data[p0] = Ch.minus THEN -ds.val ELSE ds.val]

(* "%d ": as "%d", then any white space is skipped.                        *)
ScanIntWs(data, pos) ==
    LET r == ScanInt(data, pos)
    IN  IF r.n = 1 THEN [r EXCEPT !.pos = SkipWs(data, r.pos)] ELSE r

(* "%c": the next byte, white space or not.                                *)
ScanChar(data, pos) ==
    IF AtEof(data, pos) THEN [n |-> -1, pos |-> pos, val |-> 0]
    ELSE [n |-> 1, pos |-> pos + 1, val |-> data[pos]]

(* "P%c ": a literal P, one byte, then any white space.                    *)
ScanMagic(data, pos) ==
    IF AtEof(data, pos) THEN [n |-> -1, pos |-> pos, val |-> 0]
    ELSE IF data[pos] # Ch.P THEN [n |-> 0, pos |-> pos, val |-> 0]
    ELSE LET r == ScanChar(data, pos + 1)
         IN  IF r.n = 1 THEN [r EXCEPT !.pos = SkipWs(data, r.pos)] ELSE r

RECURSIVE SkipToNl(_, _)
SkipToNl(data, pos) ==
    IF ~AtEof(data, pos) /\ data[pos] # Ch.nl THEN SkipToNl(data, pos + 1) ELSE pos

(* skipComments: while "#%*[^\n]%c" reads a '#', at least one byte that is *)
(* not a newline, and then a newline.  The result is the position the      *)
(* stream is left at (the count returned is always >= 0).                  *)
RECURSIVE skipComments(_, _)
skipComments(data, pos) ==
    IF AtEof(data, pos) \/ data[pos] # Ch.hash THEN pos
    ELSE LET r == SkipToNl(data, pos + 1)
         IN  IF r = pos + 1 THEN pos + 1
             ELSE IF AtEof(data, r) THEN r
             ELSE skipComments(data, r + 1)

(* fread of n bytes at pos: the bytes the file still has, at most n.       *)
Fread(data, pos, n) ==
    LET got == IF Len(data) - pos + 1 < n THEN Len(data) - pos + 1 ELSE n
    IN  IF got <= 0 THEN <<>> ELSE SubSeq(data, pos, pos + got - 1)

(* "%d" and "%u" of fprintf: the decimal digits of n >= 0.                 *)
RECURSIVE Decimal(_)
Decimal(n) ==
    IF n < 10 THEN <<Ch.zero + n>>
    ELSE Append(Decimal(n \div 10), Ch.zero + (n % 10))

(* "P5\n%d %d\n%u\n"                                                       *)
Header(w, h, maxval) ==
    <<Ch.P, Ch.five, Ch.nl>> \o Decimal(w) \o <<Ch.sp>> \o Decimal(h) \o <<Ch.nl>>
    \o Decimal(maxval) \o <<Ch.nl>>

----------------------------------------------------------------------------
(* ImageLoad.  LoadChain is the && chain: every step is evaluated only     *)
(* when all the steps before it succeeded, and check() leaves the failing  *)
(* step's message (or "" after a success) in errCause.  trace lists the    *)
(* steps evaluated; f is the FILE pointer (NULL when fopen failed) and img *)
(* the image pointer at the end of the chain.  openOk, ok1, ok2 are the    *)
(* environment's answers to fopen and to the two malloc calls, and sp is   *)
(* what isspace answers for a byte above 127 (a negative char, for which   *)
(* isspace is undefined).                                                  *)

LoadSteps == <<"open", "magic", "width", "height", "maxval", "space", "alloc", "read">>

Chain(success, f, img, hp, ec, n, count) ==
    [success |-> success, f |-> f, img |-> img, heap |-> hp, errCause |-> ec,
     trace |-> SubSeq(LoadSteps, 1, n), count |-> count]

(* The value of w * h while w or h is still uninitialized.                 *)
Indeterminate == -1

IsSpaceChar(c, sp) == IF c > 127 THEN sp ELSE IsSpace(c)

(* The steps, last first: each one, when it succeeds, goes on to the next. *)
(* d is the file's data, pos the stream position, env the environment's    *)
(* answers, and w, h, maxval the header fields read so far.                *)

LoadRead(hp, d, pos, img, w, h) ==
    LET px == Fread(d, pos, w * h)
        filled == [hp EXCEPT ![img].pixel =
                      [i \in 1..(w * h) |-> IF i <= Len(px) THEN px[i] ELSE 0]]
    IN  IF Len(px) # w * h
        THEN Chain(FALSE, 1, img, filled, "Reading pixels", 8, w * h)
        ELSE Chain(TRUE, 1, img, filled, "", 8, w * h)

LoadAlloc(hp, d, env, pos, w, h, maxval) ==
    LET cr == ImageCreate(hp, "", w, h, maxval, env.ok1, env.ok2)
    IN  IF cr.ret = NULL
        THEN Chain(FALSE, 1, NULL, cr.heap, cr.errCause, 7, w * h)
        ELSE LoadRead(cr.heap, d, pos, cr.ret, w, h)

LoadSpace(hp, d, env, pos, w, h, maxval) ==
    LET c == ScanChar(d, pos)
    IN  IF ~(c.n = 1 /\ IsSpaceChar(c.val, env.sp))
        THEN Chain(FALSE, 1, NULL, hp, "Whitespace expected", 6, w * h)
        ELSE LoadAlloc(hp, d, env, c.pos, w, h, maxval)

(* LoadMaxval with the format "%d " in place of "%d": the white space that *)
(* follows maxval is skipped, however long.                                *)
LoadMaxvalSkipsWs(hp, d, env, pos, w, h) ==
    LET maxval == ScanIntWs(d, pos)
    IN  IF ~(maxval.n = 1 /\ 0 < maxval.val /\ maxval.val <= PixMax)
        THEN Chain(FALSE, 1, NULL, hp, "Invalid maxval", 5, w * h)
        ELSE LoadSpace(hp, d, env, maxval.pos, w, h, maxval.val)

LoadMaxval(hp, d, env, pos, w, h) ==
    LET maxval == ScanInt(d, pos)
    IN  IF ~(maxval.n = 1 /\ 0 < maxval.val /\ maxval.val <= PixMax)
        THEN Chain(FALSE, 1, NULL, hp, "Invalid maxval", 5, w * h)
        ELSE LoadSpace(hp, d, env, maxval.pos, w, h, maxval.val)

LoadHeight(hp, d, env, pos, w) ==
    LET h == ScanIntWs(d, pos)
    IN  IF ~(h.n = 1 /\ h.val >= 0)
        THEN Chain(FALSE, 1, NULL, hp, "Invalid height", 4, Indeterminate)
        ELSE LoadMaxval(hp, d, env, skipComments(d, h.pos), w, h.val)

LoadWidth(hp, d, env, pos) ==
    LET w == ScanIntWs(d, pos)
    IN  IF ~(w.n = 1 /\ w.val >= 0)
        THEN Chain(FALSE, 1, NULL, hp, "Invalid width", 3, Indeterminate)
        ELSE LoadHeight(hp, d, env, skipComments(d, w.pos), w.val)

LoadMagic(hp, d, env) ==
    LET c == ScanMagic(d, 1)
    IN  IF ~(c.n = 1 /\ c.val = Ch.five)
        THEN Chain(FALSE, 1, NULL, hp, "Invalid file format", 2, Indeterminate)
        ELSE LoadWidth(hp, d, env, skipComments(d, c.pos))

LoadChain(hp, fl, env) ==
    IF ~(fl.exists /\ env.openOk)
    THEN Chain(FALSE, NULL, NULL, hp, "Open failed", 1, Indeterminate)
    ELSE LoadMagic(hp, fl.data, env)

(* LoadCleanup with the cleanup done on the success path only: a failed    *)
(* load returns the chain's image pointer and leaves the file open.        *)
LoadCleanupOnSuccessOnly(ch) ==
    [heap |-> ch.heap,
     ret |-> ch.img,
     errCause |-> ch.errCause,
     trace |-> ch.trace,
     count |-> ch.count,
     fopens |-> IF ch.f # NULL THEN 1 ELSE 0,
     fcloses |-> IF ch.success THEN 1 ELSE 0]

(* The cleanup after the chain: on failure the image is destroyed (a NULL  *)
(* pointer is left alone); the file is closed when it was opened.          *)
LoadCleanup(ch) ==
    [heap |-> IF ~ch.success THEN ImageDestroy(ch.heap, ch.img) ELSE ch.heap,
     ret |-> IF ~ch.success THEN NULL ELSE ch.img,
     errCause |-> ch.errCause,
     trace |-> ch.trace,
     count |-> ch.count,
     fopens |-> IF ch.f # NULL THEN 1 ELSE 0,
     fcloses |-> IF ch.f # NULL THEN 1 ELSE 0]

ImageLoad(hp, fl, openOk, ok1, ok2, sp) ==
    LoadCleanup(LoadChain(hp, fl, [openOk |-> openOk, ok1 |-> ok1, ok2 |-> ok2, sp |-> sp]))

(* ImageSave.  fopen "wb" empties the file; hdrOk says whether fprintf     *)
(* wrote the header and wr is the number of samples fwrite wrote.          *)
SaveSteps == <<"open", "header", "pixels">>

SaveChain(img, fl, openOk, hdrOk, wr) ==
    LET opened == [exists |-> TRUE, data |-> <<>>]
        header == Header(img.width, img.height, img.maxval)
        R(success, f, nf, ec, n) ==
            [success |-> success, f |-> f, file |-> nf, errCause |-> ec,
             trace |-> SubSeq(SaveSteps, 1, n)]
    IN  IF ~openOk THEN R(0, NULL, fl, "Open failed", 1)
        ELSE IF ~hdrOk THEN R(0, 1, opened, "Writing header failed", 2)
        ELSE IF wr # img.width * img.height
        THEN R(0, 1, [opened EXCEPT !.data = header \o SubSeq(img.pixel, 1, wr)],
               "Writing pixels failed", 3)
        ELSE R(1, 1, [opened EXCEPT !.data = header \o img.pixel], "", 3)

SaveCleanup(ch) ==
    [ret |-> ch.success,
     file |-> ch.file,
     errCause |-> ch.errCause,
     trace |-> ch.trace,
     fopens |-> IF ch.f # NULL THEN 1 ELSE 0,
     fcloses |-> IF ch.f # NULL THEN 1 ELSE 0]

ImageSave(img, fl, openOk, hdrOk, wr) == SaveCleanup(SaveChain(img, fl, openOk, hdrOk, wr))

----------------------------------------------------------------------------
(* The calls.  `last` is what the caller observes of the latest call: the  *)
(* operation and its arguments (args), the environment's answers (env),    *)
(* the heap and the file before it (pre, preFile), the value returned,     *)
(* whether an assert aborted the process, the samples read or written (the *)
(* PIXMEM increment), the caller's px, py (out), for the codec the steps   *)
(* run and the fopen / fclose calls made, and the call before it (prev).   *)

Obs(op, args, env, ret, aborted, pixmem) ==
    [op |-> op, args |-> args, env |-> env, pre |-> heap, preFile |-> file,
     ret |-> ret, aborted |-> aborted, pixmem |-> pixmem,
     out |-> <<>>, trace |-> <<>>, fopens |-> 0, fcloses |-> 0,
     prev |-> [op |-> last.op, args |-> last.args, ret |-> last.ret]]

Running == calls > 0 /\ ~last.aborted

(* An assert fails: the process aborts with the store as it is.            *)
Abort(op, args) ==
    /\ last' = Obs(op, args, <<>>, 0, TRUE, 0)
    /\ UNCHANGED <<heap, held, file, errCause>>

(* A call that returns a new image or NULL; r is the operator's result.    *)
Returns(op, args, env, r, pixmem) ==
    /\ heap' = r.heap
    /\ held' = IF r.ret = NULL THEN held ELSE held \cup {r.ret}
    /\ errCause' = r.errCause
    /\ last' = Obs(op, args, env, r.ret, FALSE, pixmem)
    /\ UNCHANGED file

(* A call that updates image p in place.                                   *)
Updates(op, args, p, img, pixmem) ==
    /\ heap' = [heap EXCEPT ![p] = img]
    /\ last' = Obs(op, args, <<>>, 0, FALSE, pixmem)
    /\ UNCHANGED <<held, file, errCause>>

Area(p) == heap[p].width * heap[p].height

Oks == {<<TRUE, TRUE>>, <<FALSE, TRUE>>, <<TRUE, FALSE>>}

Create(width, height, maxval, ok) ==
    /\ Running
    /\ calls' = calls - 1
    /\ IF ~CreateAsserts(width, height, maxval)
       THEN Abort("create", <<width, height, maxval>>)
       ELSE Returns("create", <<width, height, maxval>>, ok,
                    ImageCreate(heap, errCause, width, height, maxval, ok[1], ok[2]), 0)

Destroy(p) ==
    /\ Running
    /\ calls' = calls - 1
    /\ heap' = ImageDestroy(heap, p)
    /\ held' = held \ {p}
    /\ last' = Obs("destroy", <<p>>, <<>>, 0, FALSE, 0)
    /\ UNCHANGED <<file, errCause>>

SetPixel(p, x, y, level) ==
    /\ Running
    /\ calls' = calls - 1
    /\ IF ~ImageValidPos(heap[p], x, y)
       THEN Abort("set_pixel", <<p, x, y, level>>)
       ELSE Updates("set_pixel", <<p, x, y, level>>, p,
                    ImageSetPixel(heap[p], x, y, level), 1)

Negative(p) ==
    /\ Running
    /\ calls' = calls - 1
    /\ Updates("negative", <<p>>, p, ImageNegative(heap[p]), 2 * Area(p))

Threshold(p, thr) ==
    /\ Running
    /\ calls' = calls - 1
    /\ Updates("threshold", <<p, thr>>, p, ImageThreshold(heap[p], thr), 2 * Area(p))

Brighten(p, factor, ub) ==
    /\ Running
    /\ calls' = calls - 1
    /\ Updates("brighten", <<p, factor>>, p, ImageBrighten(heap[p], factor, ub),
               2 * Area(p))

Rotate(p, ok) ==
    /\ Running
    /\ calls' = calls - 1
    /\ LET r == ImageRotate(heap, errCause, p, ok[1], ok[2])
       IN  Returns("rotate", <<p>>, ok, r, IF r.ret = NULL THEN 0 ELSE 2 * Area(p))

Mirror(p, ok) ==
    /\ Running
    /\ calls' = calls - 1
    /\ LET r == ImageMirror(heap, errCause, p, ok[1], ok[2])
       IN  Returns("mirror", <<p>>, ok, r, IF r.ret = NULL THEN 0 ELSE 2 * Area(p))

(* ImageBlur returns nothing: originalImage stays in the heap, and the     *)
(* caller's set of images is as before.                                    *)
Blur(p, dx, dy, ok) ==
    /\ Running
    /\ calls' = calls - 1
    /\ LET r == ImageBlur(heap, errCause, p, dx, dy, ok[1], ok[2])
       IN  /\ heap' = r.heap
           /\ errCause' = r.errCause
           /\ last' = Obs("blur", <<p, dx, dy>>, ok, 0, FALSE,
                          IF r.ret = NULL THEN 0 ELSE BlurReads(heap[p], dx, dy, 0))
    /\ UNCHANGED <<held, file>>

Crop(p, x, y, w, h, ok) ==
    /\ Running
    /\ calls' = calls - 1
    /\ IF ~ImageValidRect(heap[p], x, y, w, h) \/ ~CreateAsserts(w, h, heap[p].maxval)
       THEN Abort("crop", <<p, x, y, w, h>>)
       ELSE LET r == ImageCrop(heap, errCause, p, x, y, w, h, ok[1], ok[2])
            IN  Returns("crop", <<p, x, y, w, h>>, ok, r,
                        IF r.ret = NULL THEN 0 ELSE 2 * w * h)

Paste(p1, x, y, p2) ==
    /\ Running
    /\ calls' = calls - 1
    /\ IF ~ImageValidRect(heap[p1], x, y, heap[p2].width, heap[p2].height)
       THEN Abort("paste", <<p1, x, y, p2>>)
       ELSE Updates("paste", <<p1, x, y, p2>>, p1,
                    ImagePaste(heap[p1], x, y, heap[p2]), 2 * Area(p2))

Blend(p1, x, y, p2, alpha) ==
    /\ Running
    /\ calls' = calls - 1
    /\ IF ~ImageValidRect(heap[p1], x, y, heap[p2].width, heap[p2].height)
       THEN Abort("blend", <<p1, x, y, p2>>)
       ELSE Updates("blend", <<p1, x, y, p2, alpha>>, p1,
                    ImageBlend(heap[p1], x, y, heap[p2], alpha), 3 * Area(p2))

MatchSubImage(p1, x, y, p2) ==
    /\ Running
    /\ calls' = calls - 1
    /\ LET m == ImageMatchSubImage(heap[p1], x, y, heap[p2])
       IN  last' = Obs("match", <<p1, x, y, p2>>, <<>>, m.ret, m.aborted, m.pixmem)
    /\ UNCHANGED <<heap, held, file, errCause>>

(* The caller's px and py hold Unset before the call.                      *)
Unset == -1

LocateSubImage(p1, p2) ==
    /\ Running
    /\ calls' = calls - 1
    /\ LET m == ImageLocateSubImage(heap[p1], Unset, Unset, heap[p2])
       IN  last' = [Obs("locate", <<p1, p2>>, <<>>, m.ret, m.aborted, m.pixmem)
                       EXCEPT !.out = <<m.px, m.py>>]
    /\ UNCHANGED <<heap, held, file, errCause>>

Save(p, openOk, hdrOk, wr) ==
    /\ Running
    /\ calls' = calls - 1
    /\ LET r == ImageSave(heap[p], file, openOk, hdrOk, wr)
       IN  /\ file' = r.file
           /\ errCause' = r.errCause
           /\ last' = [Obs("save", <<p>>, <<openOk, hdrOk, wr>>, r.ret, FALSE, Area(p))
                          EXCEPT !.trace = r.trace, !.fopens = r.fopens,
                                 !.fcloses = r.fcloses]
    /\ UNCHANGED <<heap, held>>

(* PIXMEM += w * h runs on every path; garbage is the value the product    *)
(* has when w or h was never assigned.                                     *)
Load(openOk, ok, sp, garbage) ==
    /\ Running
    /\ calls' = calls - 1
    /\ LET r == ImageLoad(heap, file, openOk, ok[1], ok[2], sp)
       IN  /\ heap' = r.heap
           /\ held' = IF r.ret = NULL THEN held ELSE held \cup {r.ret}
           /\ errCause' = r.errCause
           /\ last' = [Obs("load", <<>>, <<openOk, ok, sp>>, r.ret, FALSE,
                           IF r.count = Indeterminate THEN garbage ELSE r.count)
                          EXCEPT !.trace = r.trace, !.fopens = r.fopens,
                                 !.fcloses = r.fcloses]
    /\ UNCHANGED file

----------------------------------------------------------------------------
(* The images and inputs the calls are tried on.                           *)

Images(W, H, S, M) ==
    UNION { { Image(d[1], d[2], m, px) : m \in M, px \in [1..(d[1] * d[2]) -> S] } :
            d \in (0..W) \X (0..H) }

Samples == {0, 100, 255}

Maxvals == {100, 255}

(* The 2x2 image with rows [10, 20] and [30, 40].                          *)
RotateExample == Image(2, 2, 255, <<10, 20, 30, 40>>)

Half == [num |-> 1, den |-> 2]

Huge == [num |-> 1073741824, den |-> 1]

Factors == {[num |-> 0, den |-> 1], Half, [num |-> 1, den |-> 1],
            [num |-> 3, den |-> 2], [num |-> 3, den |-> 1], Huge}

(* What (int) makes of a double too large for an int: INT_MIN on x86       *)
(* (cvttsd2si), INT_MAX where the conversion saturates.                    *)
UbInts == {-IntMax - 1, IntMax}

NoCause == "(null)"

InitObs(hp, fl) ==
    [op |-> "init", args |-> <<>>, env |-> <<>>, pre |-> hp, preFile |-> fl,
     ret |-> 0, aborted |-> FALSE, pixmem |-> 0,
     out |-> <<>>, trace |-> <<>>, fopens |-> 0, fcloses |-> 0,
     prev |-> [op |-> "none", args |-> <<>>, ret |-> 0]]

(* Spec: the caller holds one image and calls the single-image operators.  *)
Init ==
    /\ \E img \in Images(MaxW, MaxH, Samples, Maxvals) \cup {RotateExample} :
          heap = (1 :> img)
    /\ held = {1}
    /\ file = NoFile
    /\ errCause = NoCause
    /\ last = InitObs(heap, NoFile)
    /\ calls = MaxCalls

Next ==
    \/ \E w \in -1..MaxW, h \in 0..MaxH, m \in {0, PixMax}, ok \in Oks :
          Create(w, h, m, ok)
    \/ \E p \in held \cup {NULL} : Destroy(p)
    \/ \E p \in held, x \in 0..MaxW, y \in 0..MaxH : SetPixel(p, x, y, 7)
    \/ \E p \in held : Negative(p)
    \/ \E p \in held : Threshold(p, 100)
    \/ \E p \in held, factor \in Factors, ub \in UbInts : Brighten(p, factor, ub)
    \/ \E p \in held, ok \in Oks : Rotate(p, ok)
    \/ \E p \in held, ok \in Oks : Mirror(p, ok)
    \/ \E p \in held, dx \in 0..MaxD, dy \in 0..MaxD, ok \in Oks : Blur(p, dx, dy, ok)

Spec == Init /\ [][Next]_vars

----------------------------------------------------------------------------
(* SpecPair: the caller holds two images and calls the compositor and      *)
(* crop on them.                                                           *)

PairSamples == {0, 9}

PairMaxvals == {9, 255}

Alphas == {[num |-> 0, den |-> 1], Half, [num |-> 1, den |-> 1]}

(* The 4x4 image with a 2x2 block of 9 at (1, 1), and the 2x2 block.       *)
LocateOuter == Image(4, 4, 255, <<0, 0, 0, 0,  0, 9, 9, 0,  0, 9, 9, 0,  0, 0, 0, 0>>)

LocateInner == Image(2, 2, 255, <<9, 9, 9, 9>>)

InitTwo(pairs, budget) ==
    /\ \E pr \in pairs : heap = (1 :> pr[1]) @@ (2 :> pr[2])
    /\ held = {1, 2}
    /\ file = NoFile
    /\ errCause = NoCause
    /\ last = InitObs(heap, NoFile)
    /\ calls = budget

InitPair ==
    InitTwo((Images(PairW, PairH, PairSamples, {PixMax})
                \X Images(PairW, PairH, PairSamples, {PixMax}))
            \cup {<<LocateOuter, LocateInner>>}, PairCalls)

NextPair ==
    \/ \E p \in held, x \in 0..PairW, y \in 0..PairH, w \in 0..PairW, h \in 0..PairH,
          ok \in Oks : Crop(p, x, y, w, h, ok)
    \/ \E p1 \in held, p2 \in held, x \in -1..PairW, y \in -1..PairH :
          Paste(p1, x, y, p2)
    \/ \E p1 \in held, p2 \in held, x \in -1..PairW, y \in -1..PairH, alpha \in Alphas :
          Blend(p1, x, y, p2, alpha)
    \/ \E p1 \in held, p2 \in held, x \in -1..PairW, y \in -1..PairH :
          MatchSubImage(p1, x, y, p2)
    \/ \E p1 \in held, p2 \in held : LocateSubImage(p1, p2)

SpecPair == InitPair /\ [][NextPair]_vars

(* SpecPasteCrop: the caller pastes, and crops rectangles of the size of   *)
(* one of its images.                                                      *)
InitPasteCrop ==
    InitTwo(Images(PasteCropW, PasteCropH, PairSamples, {PixMax})
               \X Images(PasteCropW, PasteCropH, PairSamples, PairMaxvals),
            PasteCropCalls)

NextPasteCrop ==
    \/ \E p1 \in held, p2 \in held, x \in 0..PasteCropW, y \in 0..PasteCropH :
          Paste(p1, x, y, p2)
    \/ \E p \in held, p2 \in held, x \in 0..PasteCropW, y \in 0..PasteCropH,
          ok \in Oks :
          Crop(p, x, y, heap[p2].width, heap[p2].height, ok)

SpecPasteCrop == InitPasteCrop /\ [][NextPasteCrop]_vars

----------------------------------------------------------------------------
(* SpecCodec: the caller holds one image and saves and loads.  Either the  *)
(* file does not exist yet, or it is one of the files below and the image  *)
(* is a 1x1 image.                                                         *)

CodecSamples == {10, 32, 35, 200}

CodecMaxvals == {1, 255}

File(data) == [exists |-> TRUE, data |-> data]

P5 == <<Ch.P, Ch.five, Ch.nl>>

(* "1" "2" "5" "6" "A" "x"                                                 *)
D == [one |-> 49, two |-> 50, six |-> 54, A |-> 65, x |-> 120, high |-> 200]

EmptyFile == File(<<>>)
BadMagic == File(<<Ch.P, D.two, Ch.nl, Ch.minus, D.one, Ch.sp, D.one, Ch.nl, D.one, Ch.nl, D.A>>)
NegativeWidth == File(P5 \o <<Ch.minus, D.one, Ch.sp, Ch.minus, D.one, Ch.nl, D.one, Ch.nl, D.A>>)
EmptyComment == File(P5 \o <<Ch.hash, Ch.nl, D.one, Ch.sp, D.one, Ch.nl, D.one, Ch.nl, D.A>>)
BadHeight == File(P5 \o <<D.one, Ch.sp, D.x, Ch.nl, Ch.zero, Ch.nl, D.A>>)
ZeroMaxval == File(P5 \o <<D.one, Ch.sp, D.one, Ch.nl, Ch.zero, Ch.nl, D.A>>)
BigMaxval == File(P5 \o <<D.one, Ch.sp, D.one, Ch.nl, D.two, Ch.five, D.six, Ch.nl, D.A>>)
NoSeparator == File(P5 \o <<D.one, Ch.sp, D.two, Ch.nl, D.one, D.A, D.A>>)
HighSeparator == File(P5 \o <<D.one, Ch.sp, D.one, Ch.nl, D.one, D.high, D.A>>)
ShortRaster == File(P5 \o <<D.two, Ch.sp, D.one, Ch.nl, D.two, Ch.five, Ch.five, Ch.nl, D.A>>)
Commented == File(P5 \o <<Ch.hash, Ch.sp, D.x, Ch.nl, D.one, Ch.sp, Ch.hash, D.x, Ch.nl,
                          D.one, Ch.nl, Ch.hash, D.x, Ch.nl, D.two, Ch.five, Ch.five,
                          Ch.nl, Ch.hash>>)
LongRaster == File(P5 \o <<D.one, Ch.sp, D.one, Ch.nl, D.two, Ch.five, Ch.five, Ch.nl, D.A, D.A>>)

InitFiles == {EmptyFile, BadMagic, NegativeWidth, EmptyComment, BadHeight, ZeroMaxval,
              BigMaxval, NoSeparator, HighSeparator, ShortRaster, Commented, LongRaster}

InitCodec ==
    /\ \/ /\ \E img \in Images(CodecW, CodecH, CodecSamples, CodecMaxvals) :
                heap = (1 :> img)
          /\ file = NoFile
       \/ /\ heap = (1 :> Image(1, 1, 255, <<7>>))
          /\ file \in InitFiles
    /\ held = {1}
    /\ errCause = NoCause
    /\ last = InitObs(heap, file)
    /\ calls = CodecCalls

NextCodec ==
    \/ \E p \in held, openOk \in BOOLEAN, hdrOk \in BOOLEAN, short \in 0..1 :
          /\ short <= Area(p)
          /\ Save(p, openOk, hdrOk, Area(p) - short)
    \/ \E openOk \in BOOLEAN, ok \in Oks, sp \in BOOLEAN, garbage \in {0, 7} :
          Load(openOk, ok, sp, garbage)

SpecCodec == InitCodec /\ [][NextCodec]_vars

----------------------------------------------------------------------------
(* Properties of the single-image operators, under Spec.                   *)

(* The mean the blur is specified to store at (x, y): the sum of the       *)
(* in-bounds neighbours of the original divided, truncating, by their      *)
(* number.                                                                 *)
BlurMean(orig, x, y, dx, dy) ==
    BlurSum(orig, x, y, dx, dy) \div BlurCount(orig, x, y, dx, dy)

(* Both malloc calls of the latest call were granted.                      *)
Allocated == last.env = <<TRUE, TRUE>> /\ Malloc(last.pre, TRUE) # NULL

(* C1: after blur(image, dx, dy) with dx, dy >= 0 (and its copy allocated) *)
(* every sample at (x, y) is the truncating mean of the pre-blur samples   *)
(* in [x-dx, x+dx] x [y-dy, y+dy] within the image, and width, height and  *)
(* maxval are unchanged.                                                   *)
BlurStoresMeans ==
    (last.op = "blur" /\ Allocated) =>
        LET p == last.args[1]
            old == last.pre[p]
            new == heap[p]
        IN  /\ new.width = old.width
            /\ new.height = old.height
            /\ new.maxval = old.maxval
            /\ \A x \in 0..(old.width - 1), y \in 0..(old.height - 1) :
                  ImageGetPixel(new, x, y)
                      = BlurMean(old, x, y, last.args[2], last.args[3])

(* C2: rotate returns the image turned 90 degrees counter-clockwise: the   *)
(* result of a width x height image is height x width with the same        *)
(* maxval, its sample at column y, row width-1-x is the source sample at   *)
(* (x, y), and rows [10, 20], [30, 40] give rows [20, 40], [10, 30].       *)
RotateIsCounterClockwise ==
    (last.op = "rotate" /\ last.ret # NULL) =>
        LET src == last.pre[last.args[1]]
            dst == heap[last.ret]
        IN  /\ dst.width = src.height
            /\ dst.height = src.width
            /\ dst.maxval = src.maxval
            /\ \A x \in 0..(src.width - 1), y \in 0..(src.height - 1) :
                  ImageGetPixel(dst, y, src.width - 1 - x) = ImageGetPixel(src, x, y)
            /\ src = RotateExample => dst.pixel = <<20, 40, 10, 30>>

(* min(maxval, floor(s * factor)), the product taken exactly: a product    *)
(* beyond IntMax is beyond maxval.                                         *)
Clamped(s, factor, maxval) ==
    IF s = 0 THEN 0
    ELSE IF factor.num > IntMax \div s THEN maxval
    ELSE IF (s * factor.num) \div factor.den > maxval THEN maxval
    ELSE (s * factor.num) \div factor.den

(* C3: after brighten(image, factor) with factor >= 0 every sample s is    *)
(* min(maxval, floor(s * factor)): maxval whenever s * factor >= maxval,   *)
(* and 0 everywhere for factor 0.                                          *)
BrightenClampsProduct ==
    last.op = "brighten" =>
        LET p == last.args[1]
            old == last.pre[p]
        IN  \A i \in 1..(old.width * old.height) :
               heap[p].pixel[i] = Clamped(old.pixel[i], last.args[2], old.maxval)

(* C10: when a call has returned, the images in the heap are exactly the   *)
(* images the caller holds: nothing the library allocated is left behind.  *)
AllocationBalance == ~last.aborted => DOMAIN heap = held

----------------------------------------------------------------------------
(* Properties of the compositor, under SpecPair.                           *)

(* Every sample of img2 equals the sample of img1 at the rectangle         *)
(* anchored at (x, y).                                                     *)
Matches(img1, x, y, img2) ==
    \A i \in 0..(img2.width - 1), j \in 0..(img2.height - 1) :
       /\ ImageValidPos(img1, x + i, y + j)
       /\ ImageGetPixel(img1, x + i, y + j) = ImageGetPixel(img2, i, j)

(* C4: for every image I, empty ones included, match_subimage(I, 0, 0, I)  *)
(* returns true and locate_subimage(I, I) returns (found, 0, 0), without   *)
(* aborting.                                                               *)
SelfMatchAndLocate ==
    /\ (last.op = "match" /\ last.args[1] = last.args[4]
           /\ last.args[2] = 0 /\ last.args[3] = 0)
       => (~last.aborted /\ last.ret = 1)
    /\ (last.op = "locate" /\ last.args[1] = last.args[2])
       => (~last.aborted /\ last.ret = 1 /\ last.out = <<0, 0>>)

(* The anchors of the search range at which img2 matches img1.             *)
MatchingAnchors(img1, img2) ==
    {a \in (0..(img1.width - img2.width)) \X (0..(img1.height - img2.height)) :
        Matches(img1, a[1], a[2], img2)}

(* C5: locate_subimage(img1, img2) returns found iff img2 matches at some  *)
(* anchor of the range, with the first such anchor in row-major order;     *)
(* otherwise not found with px, py unwritten; no image is modified.        *)
LocateFindsFirstMatch ==
    last.op = "locate" =>
        LET as == MatchingAnchors(last.pre[last.args[1]], last.pre[last.args[2]])
        IN  /\ ~last.aborted
            /\ heap = last.pre
            /\ (last.ret = 1) <=> (as # {})
            /\ last.ret = 1 =>
                  /\ last.out \in as
                  /\ \A a \in as : \/ last.out[2] < a[2]
                                   \/ last.out[2] = a[2] /\ last.out[1] <= a[1]
            /\ last.ret # 1 => last.out = <<Unset, Unset>>

(* The rectangle a call of crop, paste, blend or match_subimage needs.     *)
CallRectValid ==
    LET img1 == last.pre[last.args[1]]
    IN  IF last.op = "crop"
        THEN ImageValidRect(img1, last.args[2], last.args[3], last.args[4], last.args[5])
        ELSE ImageValidRect(img1, last.args[2], last.args[3],
                            last.pre[last.args[4]].width, last.pre[last.args[4]].height)

(* C9: a call of crop, paste, blend or match_subimage whose rectangle      *)
(* violates valid_rect returns nothing and changes no image: it aborts     *)
(* before any sample is read or written.                                   *)
InvalidRectAborts ==
    (last.op \in {"crop", "paste", "blend", "match"} /\ ~CallRectValid)
    => (last.aborted /\ last.pixmem = 0 /\ heap = last.pre)

----------------------------------------------------------------------------
(* Paste then crop, under SpecPasteCrop.                                   *)

(* The latest call is a crop that returned an image, of the rectangle the  *)
(* call before it pasted into.                                             *)
CroppedAfterPaste ==
    /\ last.op = "crop" /\ ~last.aborted /\ last.ret # NULL
    /\ last.prev.op = "paste"
    /\ last.args = <<last.prev.args[1], last.prev.args[2], last.prev.args[3],
                     heap[last.prev.args[4]].width, heap[last.prev.args[4]].height>>

(* paste leaves src, the shape of dst and every sample of dst outside the  *)
(* anchored rectangle as they were.                                        *)
PasteFrame ==
    (last.op = "paste" /\ ~last.aborted) =>
        LET p1 == last.args[1]
            x == last.args[2]
            y == last.args[3]
            src == last.pre[last.args[4]]
            old == last.pre[p1]
        IN  /\ heap[last.args[4]] = src
            /\ DOMAIN heap = DOMAIN last.pre
            /\ heap[p1].width = old.width /\ heap[p1].height = old.height
            /\ heap[p1].maxval = old.maxval
            /\ \A u \in 0..(old.width - 1), v \in 0..(old.height - 1) :
                  ~(x <= u /\ u < x + src.width /\ y <= v /\ v < y + src.height)
                  => ImageGetPixel(heap[p1], u, v) = ImageGetPixel(old, u, v)

(* C8 as stated: paste(dst, x, y, src) then crop(dst, x, y, src.width,     *)
(* src.height) returns an image equal to src in width, height, maxval and  *)
(* every sample, and paste leaves the rest as it was.                      *)
PasteThenCropEqualsSrc ==
    /\ PasteFrame
    /\ CroppedAfterPaste =>
          LET src == heap[last.prev.args[4]]
              cropped == heap[last.ret]
          IN  /\ cropped.width = src.width
              /\ cropped.height = src.height
              /\ cropped.pixel = src.pixel
              /\ cropped.maxval = src.maxval

(* C8 amended: the image returned equals src in width, height and every    *)
(* sample, and its maxval is that of dst; paste leaves the rest as it was. *)
PasteThenCropKeepsDstMaxval ==
    /\ PasteFrame
    /\ CroppedAfterPaste =>
          LET src == heap[last.prev.args[4]]
              cropped == heap[last.ret]
          IN  /\ cropped.width = src.width
              /\ cropped.height = src.height
              /\ cropped.pixel = src.pixel
              /\ cropped.maxval = heap[last.prev.args[1]].maxval

(* A non-empty src with another maxval than dst was pasted off the origin  *)
(* and cropped back.                                                       *)
PasteCropWitness ==
    /\ CroppedAfterPaste
    /\ last.args[2] = 1
    /\ last.args[4] * last.args[5] > 0
    /\ heap[last.prev.args[4]].maxval # heap[last.prev.args[1]].maxval

----------------------------------------------------------------------------
(* Properties of the codec, under SpecCodec.                               *)

(* fopen and both malloc calls of the latest load were granted.            *)
LoadGranted ==
    last.env[1] /\ last.env[2] = <<TRUE, TRUE>> /\ Malloc(last.pre, TRUE) # NULL

(* The latest call is a load of the file the call before it saved with     *)
(* success.                                                                *)
LoadedAfterSave ==
    last.op = "load" /\ last.prev.op = "save" /\ last.prev.ret = 1

(* C6: when save(I, path) succeeded and the file is then loaded (fopen and *)
(* malloc granted), load returns an image equal to I in width, height,     *)
(* maxval and every sample, whatever bytes the raster starts with; save    *)
(* does not modify I.                                                      *)
SaveLoadRoundTrip ==
    /\ last.op = "save" => heap = last.pre
    /\ (LoadedAfterSave /\ LoadGranted) =>
          /\ last.ret # NULL
          /\ last.ret \notin DOMAIN last.pre
          /\ heap[last.ret] = heap[last.prev.args[1]]
          /\ heap[last.prev.args[1]] = last.pre[last.prev.args[1]]

(* An image whose raster starts with a newline, a space or a '#' came back *)
(* from the file it was saved to.                                          *)
RoundTripWitness ==
    /\ LoadedAfterSave
    /\ last.ret # NULL
    /\ heap[last.ret].width * heap[last.ret].height > 0
    /\ heap[last.ret].pixel[1] \in {Ch.nl, Ch.sp, Ch.hash}

(* The cause strings of each step.                                         *)
CauseOf(step) ==
    CASE step = "open" -> {"Open failed"}
      [] step = "magic" -> {"Invalid file format"}
      [] step = "width" -> {"Invalid width"}
      [] step = "height" -> {"Invalid height"}
      [] step = "maxval" -> {"Invalid maxval"}
      [] step = "space" -> {"Whitespace expected"}
      [] step = "alloc" -> {"Memory allocation for Image structure failed",
                            "Memory allocation for pixel array failed"}
      [] step = "read" -> {"Reading pixels"}
      [] step = "header" -> {"Writing header failed"}
      [] step = "pixels" -> {"Writing pixels failed"}

(* The first step that fails on each of the malformed files, once opened   *)
(* (and, for the short raster, once the image is allocated).               *)
FirstFailure ==
    {<<EmptyFile, "magic">>, <<BadMagic, "magic">>, <<NegativeWidth, "width">>,
     <<BadHeight, "height">>, <<ZeroMaxval, "maxval">>, <<BigMaxval, "maxval">>,
     <<NoSeparator, "space">>, <<ShortRaster, "read">>}

(* The steps run are the first n steps of the order, the file is open from *)
(* the second step on, and every file opened is closed once.               *)
RanInOrder(steps) ==
    LET n == Len(last.trace)
    IN  /\ 1 <= n /\ n <= Len(steps)
        /\ last.trace = SubSeq(steps, 1, n)
        /\ last.fopens = (IF n = 1 /\ errCause = "Open failed" THEN 0 ELSE 1)
        /\ last.fcloses = last.fopens

(* C7: load runs open, magic, width, height, maxval, separator, allocate,  *)
(* read in order and stops at the first step that fails: errCause is that  *)
(* step's cause, the caller gets NULL and no image stays allocated; load   *)
(* and save close the file they opened exactly once on every path.         *)
CodecShortCircuits ==
    /\ last.op = "load" =>
          /\ RanInOrder(LoadSteps)
          /\ last.ret = NULL =>
                /\ errCause \in CauseOf(last.trace[Len(last.trace)])
                /\ heap = last.pre
                /\ held = DOMAIN heap
          /\ last.ret # NULL =>
                /\ last.trace = LoadSteps
                /\ errCause = ""
                /\ DOMAIN heap = DOMAIN last.pre \cup {last.ret}
                /\ last.ret \notin DOMAIN last.pre
                /\ \A q \in DOMAIN last.pre : heap[q] = last.pre[q]
          /\ \A e \in FirstFailure :
                (last.preFile = e[1] /\ last.env[1] /\ (e[2] = "read" => LoadGranted)) =>
                    (last.ret = NULL /\ last.trace[Len(last.trace)] = e[2])
    /\ last.op = "save" =>
          /\ RanInOrder(SaveSteps)
          /\ heap = last.pre
          /\ last.ret = 0 => errCause \in CauseOf(last.trace[Len(last.trace)])
          /\ last.ret # 0 => (last.trace = SaveSteps /\ errCause = "")

(* A load that allocated its image, failed at the read and closed the      *)
(* file.                                                                   *)
LoadFailsAtRead ==
    /\ last.op = "load"
    /\ last.ret = NULL
    /\ last.trace = LoadSteps
    /\ last.fcloses = 1

====
